---- MODULE Spec2Model ----
(***************************************************************************)
(* A model of the single-socket, transmit-only TFTP server: the request   *)
(* validation of server.rs, the option negotiation of state.rs, and the   *)
(* window fill/drain and session lifecycle of Server::listen's handlers.  *)
(* One action handles one datagram to completion, as the blocking receive *)
(* loop does.                                                              *)
(***************************************************************************)
EXTENDS Integers, Sequences, FiniteSets, TLC

VARIABLES
    connmap,   \* Server.connmap: a function from the live addresses to their State
    inp,       \* the datagram the loop handled last: [from, pkt]
    out,       \* the packets the server sent while handling it, in order: [to, pkt]
    panicked,  \* TRUE once a handler has panicked (the process is gone)
    client     \* the acknowledging clients of SpecGood: what each has received

vars == <<connmap, inp, out, panicked, client>>

(***************************************************************************)
(* Program constants and the bounds of the model.                          *)
(***************************************************************************)
U16_MAX == 65535
DEFAULT_BLOCK_SIZE == 512
DEFAULT_TIMEOUT_SECS == 5

\* The longest file under the root; the root also holds one of MaxFileLen - 1
\* bytes and an empty one, so that with block size 2 one length is an exact
\* multiple of the block size and the other is not.
MaxFileLen == 5
\* Clients acknowledge the block numbers 0..MaxAck, and the two highest ones.
MaxAck == 4

Addrs == {"A", "B"}

Min(a, b) == IF a <= b THEN a ELSE b

\* u16::wrapping_sub and u16::wrapping_add.
wrapping_sub(a, b) == (a - b) % (U16_MAX + 1)
wrapping_add(a, b) == (a + b) % (U16_MAX + 1)

(***************************************************************************)
(* Paths.  A path is its text, a sequence of characters; the filesystem is *)
(* fixed: the root directory /d with three files, and one file outside it. *)
(***************************************************************************)
directory == <<"/", "d">>

Name_r == <<"r">>                     \* /d/r, MaxFileLen bytes
Name_q == <<"q">>                     \* /d/q, MaxFileLen - 1 bytes
Name_e == <<"e">>                     \* /d/e, empty
Name_m == <<"m">>                     \* no such file
Name_up_s == <<".", ".", "/", "s">>   \* ../s: /s exists, outside the root
Name_up_m == <<".", ".", "/", "m">>   \* ../m: no such file, outside the root
Name_abs_s == <<"/", "s">>            \* /s given as an absolute path
Name_dots == <<"a", ".", ".", "b">>   \* a..b: no such file; ".." is inside a name

Filenames == {Name_r, Name_q, Name_e, Name_m, Name_up_s, Name_up_m, Name_abs_s, Name_dots}

\* PathBuf::join: an absolute argument replaces the base.
join(base, name) ==
    IF name # <<>> /\ name[1] = "/" THEN name ELSE base \o <<"/">> \o name

\* str::contains("..")
contains_dotdot(s) == \E i \in 1..(Len(s) - 1) : s[i] = "." /\ s[i + 1] = "."

\* Path::components of an absolute path: the names between separators, empty
\* names and "." dropped.
RECURSIVE split(_, _, _)
split(s, i, cur) ==
    IF i > Len(s)
    THEN IF cur = <<>> \/ cur = <<".">> THEN <<>> ELSE <<cur>>
    ELSE IF s[i] = "/"
         THEN (IF cur = <<>> \/ cur = <<".">> THEN <<>> ELSE <<cur>>) \o split(s, i + 1, <<>>)
         ELSE split(s, i + 1, Append(cur, s[i]))

components(s) == split(s, 1, <<>>)

IsPrefix(p, s) == Len(p) <= Len(s) /\ SubSeq(s, 1, Len(p)) = p

\* file.ancestors().any(|a| a == directory): the directory's components are a
\* prefix of the file's.
has_ancestor(file, dir) == IsPrefix(components(dir), components(file))

\* What the operating system opens for a path: ".." steps to the parent.
RECURSIVE resolve(_, _)
resolve(comps, acc) ==
    IF comps = <<>> THEN acc
    ELSE IF Head(comps) = <<".", ".">>
         THEN resolve(Tail(comps), IF acc = <<>> THEN <<>> ELSE SubSeq(acc, 1, Len(acc) - 1))
         ELSE resolve(Tail(comps), Append(acc, Head(comps)))

Resolved(path) == resolve(components(path), <<>>)

Path_r == << <<"d">>, <<"r">> >>
Path_q == << <<"d">>, <<"q">> >>
Path_e == << <<"d">>, <<"e">> >>
Path_s == << <<"s">> >>

Files == {Path_r, Path_q, Path_e, Path_s}

\* Path::exists
exists(path) == Resolved(path) \in Files

\* Metadata::len of an existing file.
file_len(path) ==
    LET p == Resolved(path)
    IN  IF p = Path_r THEN MaxFileLen
        ELSE IF p = Path_q THEN MaxFileLen - 1
        ELSE IF p = Path_e THEN 0
        ELSE 3

\* The bytes of an existing file: every position of a file holds another value.
file_bytes(path) ==
    LET p == Resolved(path)
        salt == IF p = Path_r THEN 10 ELSE IF p = Path_q THEN 20 ELSE IF p = Path_e THEN 30 ELSE 40
    IN  [i \in 1..file_len(path) |-> salt + i]

\* validate_file_path
validate_file_path(file, dir) == ~contains_dotdot(file) /\ has_ancestor(file, dir)

\* check_file_exists with the existence test first.
check_file_exists_first(file, dir) ==
    IF ~exists(file) THEN "FileNotFound"
    ELSE IF ~validate_file_path(file, dir) THEN "AccessViolation"
    ELSE "FileExists"

\* check_file_exists
check_file_exists(file, dir) ==
    IF ~validate_file_path(file, dir) THEN "AccessViolation"
    ELSE IF ~exists(file) THEN "FileNotFound"
    ELSE "FileExists"

(***************************************************************************)
(* Option negotiation (state.rs).                                          *)
(***************************************************************************)
Opt(kind, value) == [option |-> kind, value |-> value]

\* The option lists clients send.
OptionLists ==
    { <<>>,
      <<Opt("BlockSize", 2)>>,
      <<Opt("BlockSize", 2), Opt("Windowsize", 2)>>,
      <<Opt("Windowsize", 3), Opt("BlockSize", 2)>>,
      <<Opt("TransferSize", 0), Opt("BlockSize", 2), Opt("Timeout", 3)>>,
      <<Opt("BlockSize", 2), Opt("Windowsize", U16_MAX)>>,
      <<Opt("TransferSize", 9), Opt("TransferSize", 1)>>,
      <<Opt("BlockSize", 1), Opt("BlockSize", 3)>>,
      <<Opt("Timeout", 0)>>,
      <<Opt("Windowsize", 0)>>,
      <<Opt("TransferSize", 7), Opt("Windowsize", U16_MAX + 1)>> }

\* StateOptions as parse_options first builds it.
default_options ==
    [blk_size |-> DEFAULT_BLOCK_SIZE, t_size |-> 0,
     timeout |-> DEFAULT_TIMEOUT_SECS, windowsize |-> 1]

\* parse_option without the write of the file size into the client's option.
parse_option_unwritten(acc, i, file_size) ==
    LET o == acc.options[i]
    IN  CASE o.option = "BlockSize" ->
                [acc EXCEPT !.state.blk_size = o.value]
          [] o.option = "TransferSize" ->
                [acc EXCEPT !.state.t_size = file_size]
          [] o.option = "Timeout" ->
                IF o.value = 0 THEN [acc EXCEPT !.ok = FALSE]
                ELSE [acc EXCEPT !.state.timeout = o.value]
          [] o.option = "Windowsize" ->
                IF o.value = 0 \/ o.value > U16_MAX THEN [acc EXCEPT !.ok = FALSE]
                ELSE [acc EXCEPT !.state.windowsize = o.value]

\* One turn of parse_options' loop on option i; acc is [ok, options, state].
parse_option(acc, i, file_size) ==
    LET o == acc.options[i]
    IN  CASE o.option = "BlockSize" ->
                [acc EXCEPT !.state.blk_size = o.value]
          [] o.option = "TransferSize" ->
                [acc EXCEPT !.options[i].value = file_size, !.state.t_size = file_size]
          [] o.option = "Timeout" ->
                IF o.value = 0 THEN [acc EXCEPT !.ok = FALSE]
                ELSE [acc EXCEPT !.state.timeout = o.value]
          [] o.option = "Windowsize" ->
                IF o.value = 0 \/ o.value > U16_MAX THEN [acc EXCEPT !.ok = FALSE]
                ELSE [acc EXCEPT !.state.windowsize = o.value]

RECURSIVE parse_loop(_, _, _)
parse_loop(acc, i, file_size) ==
    IF i > Len(acc.options) \/ ~acc.ok THEN acc
    ELSE parse_loop(parse_option(acc, i, file_size), i + 1, file_size)

\* parse_options(&mut options, file_size): ok is FALSE for Err; options is the
\* caller's list as the call leaves it; state is the StateOptions of Ok.
parse_options(options, file_size) ==
    parse_loop([ok |-> TRUE, options |-> options, state |-> default_options], 1, file_size)

(***************************************************************************)
(* The window (server.rs).  A State is [filepath, pos, options,            *)
(* block_number, window, finished]: pos is the read offset of its file.    *)
(***************************************************************************)
\* file.read(&mut buf) at offset pos: how many bytes it reads.
read_len(bytes, pos, blk_size) == Min(blk_size, Len(bytes) - pos)

\* buf after vec![0; blk_size] and the read: the bytes read, then zeros.
read_buf(bytes, pos, blk_size) ==
    LET n == read_len(bytes, pos, blk_size)
    IN  [i \in 1..blk_size |-> IF i <= n THEN bytes[pos + i] ELSE 0]

\* buf.truncate(read) when read < blk_size
truncate(buf, n) == SubSeq(buf, 1, n)

\* chunk without the truncation of a short read.
chunk_untruncated(bytes, pos, blk_size) == read_buf(bytes, pos, blk_size)

\* The chunk one turn of fill_window's loop pushes after a read of n bytes.
chunk(bytes, pos, blk_size) ==
    LET n == read_len(bytes, pos, blk_size)
        buf == read_buf(bytes, pos, blk_size)
    IN  IF n < blk_size THEN truncate(buf, n) ELSE buf

\* fill_window's loop with n turns left; acc is [window, pos, unfilled].
RECURSIVE fill_loop(_, _, _, _)
fill_loop(acc, n, bytes, blk_size) ==
    IF n = 0 THEN acc
    ELSE LET read == read_len(bytes, acc.pos, blk_size)
         IN  IF read = 0 THEN [acc EXCEPT !.unfilled = TRUE]
             ELSE fill_loop([window |-> Append(acc.window, chunk(bytes, acc.pos, blk_size)),
                             pos |-> acc.pos + read,
                             unfilled |-> acc.unfilled \/ read < blk_size],
                            n - 1, bytes, blk_size)

\* fill_window reading windowsize chunks whatever the window already holds.
fill_window_whole(window, options, bytes, pos) ==
    fill_loop([window |-> window, pos |-> pos, unfilled |-> FALSE],
              options.windowsize, bytes, options.blk_size)

\* fill_window: [window, pos, unfilled], unfilled being the value it returns.
fill_window(window, options, bytes, pos) ==
    LET to_fill == options.windowsize - Len(window)
    IN  IF to_fill = 0 THEN [window |-> window, pos |-> pos, unfilled |-> FALSE]
        ELSE fill_loop([window |-> window, pos |-> pos, unfilled |-> FALSE],
                       to_fill, bytes, options.blk_size)

Data(block_num, data) == [op |-> "Data", block_num |-> block_num, data |-> data]
Ack(block) == [op |-> "Ack", block |-> block]
Error(code) == [op |-> "Error", code |-> code]
Oack(options) == [op |-> "Oack", options |-> options]
Rrq(filename, options) == [op |-> "Rrq", filename |-> filename, options |-> options]
Wrq(filename) == [op |-> "Wrq", filename |-> filename]

To(to, pkt) == [to |-> to, pkt |-> pkt]

\* send_window: one Data packet per chunk, front to back, numbered from block_num.
send_window(to, window, block_num) ==
    [i \in 1..Len(window) |-> To(to, Data(wrapping_add(block_num, i - 1), window[i]))]

\* process_send on a State: the State after the fill, and the packets sent.
process_send(to, state) ==
    LET f == fill_window(state.window, state.options, file_bytes(state.filepath), state.pos)
        st == [state EXCEPT !.window = f.window, !.pos = f.pos, !.finished = f.unfilled]
    IN  [state |-> st, out |-> send_window(to, st.window, st.block_number)]

\* Vec::pop: the last element goes; nothing happens to an empty vector.
pop(window) == IF window = <<>> THEN window ELSE SubSeq(window, 1, Len(window) - 1)

RECURSIVE pop_n(_, _)
pop_n(window, n) == IF n = 0 \/ window = <<>> THEN window ELSE pop_n(pop(window), n - 1)

\* Whether handle_ack's diff + 1 overflows its u16.
drain_overflows(state, ack_block_number) ==
    LET diff == wrapping_sub(ack_block_number, state.block_number)
    IN  diff <= state.options.windowsize /\ diff = U16_MAX

\* handle_ack's drain (the if diff <= windowsize block).  A build without
\* overflow checks wraps diff + 1 to 0 and the loop does not run.
drain(state, ack_block_number) ==
    LET diff == wrapping_sub(ack_block_number, state.block_number)
    IN  IF diff <= state.options.windowsize
        THEN [state EXCEPT !.block_number = wrapping_add(ack_block_number, 1),
                           !.window = pop_n(state.window, wrapping_add(diff, 1))]
        ELSE state

\* An insert that leaves the new entry alone in the table.
insert_alone(map, key, value) == [k \in {key} |-> value]

\* An insert that keeps the entry a key already has.
insert_keeping(map, key, value) ==
    IF key \in DOMAIN map THEN map
    ELSE [k \in DOMAIN map \cup {key} |-> IF k = key THEN value ELSE map[k]]

\* HashMap::insert and HashMap::remove
insert(map, key, value) ==
    [k \in DOMAIN map \cup {key} |-> IF k = key THEN value ELSE map[k]]
remove(map, key) == [k \in DOMAIN map \ {key} |-> map[k]]

(***************************************************************************)
(* The handlers of Server::listen.  Each gives the connection table after  *)
(* the call and the packets sent during it.                                *)
(***************************************************************************)
\* handle_rrq.  An Err of parse_options leaves through `?`: listen logs it, and
\* nothing is sent.
handle_rrq(map, filename, options, to) ==
    LET file_path == join(directory, filename)
        found == check_file_exists(file_path, directory)
    IN  IF found = "FileNotFound"
        THEN [connmap |-> map, out |-> <<To(to, Error("FileNotFound"))>>]
        ELSE IF found = "AccessViolation"
        THEN [connmap |-> map, out |-> <<To(to, Error("AccessViolation"))>>]
        ELSE LET parsed == parse_options(options, file_len(file_path))
                 state == [filepath |-> file_path,
                           pos |-> 0,
                           options |-> parsed.state,
                           block_number |-> IF Len(parsed.options) > 0 THEN 0 ELSE 1,
                           window |-> <<>>,
                           finished |-> FALSE]
                 sent == process_send(to, state)
             IN  IF ~parsed.ok
                 THEN [connmap |-> map, out |-> <<>>]
                 ELSE IF Len(parsed.options) > 0
                 THEN [connmap |-> insert(map, to, state),
                       out |-> <<To(to, Oack(parsed.options))>>]
                 ELSE [connmap |-> insert(map, to, sent.state), out |-> sent.out]

\* end_session
end_session(map, to) == [connmap |-> remove(map, to), out |-> <<>>]

\* handle_ack answering an unknown address with an Error.
handle_ack_replying(map, ack_block_number, to) ==
    IF to \notin DOMAIN map
    THEN [connmap |-> map, out |-> <<To(to, Error("UnknownTransferId"))>>]
    ELSE LET state == drain(map[to], ack_block_number)
             drained == insert(map, to, state)
             sent == process_send(to, state)
         IN  IF state.finished
             THEN end_session(drained, to)
             ELSE [connmap |-> insert(map, to, sent.state), out |-> sent.out]

\* handle_ack returning at once from an Ack the drain does not accept.
handle_ack_ignoring(map, ack_block_number, to) ==
    IF to \notin DOMAIN map
    THEN [connmap |-> map, out |-> <<>>]
    ELSE LET state == drain(map[to], ack_block_number)
             drained == insert(map, to, state)
             sent == process_send(to, state)
         IN  IF wrapping_sub(ack_block_number, map[to].block_number)
                    > map[to].options.windowsize
             THEN [connmap |-> map, out |-> <<>>]
             ELSE IF state.finished
             THEN end_session(drained, to)
             ELSE [connmap |-> insert(map, to, sent.state), out |-> sent.out]

\* handle_ack, for an address with or without an entry ("missing state" is an
\* Err that listen logs).
handle_ack(map, ack_block_number, to) ==
    IF to \notin DOMAIN map
    THEN [connmap |-> map, out |-> <<>>]
    ELSE LET state == drain(map[to], ack_block_number)
             drained == insert(map, to, state)
             sent == process_send(to, state)
         IN  IF state.finished
             THEN end_session(drained, to)
             ELSE [connmap |-> insert(map, to, sent.state), out |-> sent.out]

\* The other arms with every packet logged only, none answered.
handle_other_silent(map, pkt, from) == [connmap |-> map, out |-> <<>>]

\* The other arms with an Error from the client ending its transfer.
handle_other_closing(map, pkt, from) ==
    IF pkt.op = "Error"
    THEN [connmap |-> remove(map, from), out |-> <<>>]
    ELSE [connmap |-> map, out |-> <<To(from, Error("IllegalOperation"))>>]

\* The other arms of listen's match: an Error is logged; any other packet is
\* answered with IllegalOperation.
handle_other(map, pkt, from) ==
    IF pkt.op = "Error"
    THEN [connmap |-> map, out |-> <<>>]
    ELSE [connmap |-> map, out |-> <<To(from, Error("IllegalOperation"))>>]

\* listen's match on one received packet.
dispatch(map, pkt, from) ==
    CASE pkt.op = "Rrq" -> handle_rrq(map, pkt.filename, pkt.options, from)
      [] pkt.op = "Ack" -> handle_ack(map, pkt.block, from)
      [] OTHER -> handle_other(map, pkt, from)

\* Whether handling pkt reaches the overflowing diff + 1 of handle_ack.
overflows(map, pkt, from) ==
    /\ pkt.op = "Ack"
    /\ from \in DOMAIN map
    /\ drain_overflows(map[from], pkt.block)

(***************************************************************************)
(* The state machine.                                                      *)
(***************************************************************************)
NoPacket == [op |-> "None"]

\* A client before its request.  interrupted is written under SpecRestart
\* only: the transfer its latest request found in the table, if any.
Idle ==
    [requested |-> FALSE, filename |-> <<>>, got |-> <<>>, blocks |-> 0,
     inorder |-> TRUE, pending |-> -1, interrupted |-> [live |-> FALSE]]

Init ==
    /\ connmap = <<>>
    /\ inp = [from |-> "", pkt |-> NoPacket]
    /\ out = <<>>
    /\ panicked = FALSE
    /\ client = [a \in Addrs |-> Idle]

\* One turn of listen's loop on the datagram pkt from `from`.  The overflow of
\* diff + 1 panics in a build with overflow checks (the block number is already
\* written) and wraps in one without.
Listen(from, pkt) ==
    /\ ~panicked
    /\ inp' = [from |-> from, pkt |-> pkt]
    /\ \/ /\ LET r == dispatch(connmap, pkt, from)
             IN  connmap' = r.connmap /\ out' = r.out
          /\ panicked' = FALSE
       \/ /\ overflows(connmap, pkt, from)
          /\ connmap' = [connmap EXCEPT ![from].block_number = wrapping_add(pkt.block, 1)]
          /\ out' = <<>>
          /\ panicked' = TRUE

AckBlocks == 0..MaxAck \cup {U16_MAX - 1, U16_MAX}

OtherPackets == {Wrq(Name_r), Data(1, <<>>), Oack(<<>>)}

\* Spec has one sender, which may send anything at any time.
Senders == {"A"}

RecvRrq(a) ==
    \E f \in Filenames, o \in OptionLists : Listen(a, Rrq(f, o)) /\ UNCHANGED client

RecvAck(a) ==
    \E b \in AckBlocks : Listen(a, Ack(b)) /\ UNCHANGED client

RecvError(a) == Listen(a, Error("NotDefined")) /\ UNCHANGED client

RecvOther(a) ==
    \E pkt \in OtherPackets : Listen(a, pkt) /\ UNCHANGED client

Next ==
    \E a \in Senders : RecvRrq(a) \/ RecvAck(a) \/ RecvError(a) \/ RecvOther(a)

Spec == Init /\ [][Next]_vars

(***************************************************************************)
(* SpecGood: every client sends a valid read request, then answers each    *)
(* batch of Data by acknowledging its highest block number, an OptionAck   *)
(* by Ack(0), and nothing by nothing.                                      *)
(***************************************************************************)
\* The packets of `sent` addressed to a.
RECURSIVE PacketsTo(_, _)
PacketsTo(sent, a) ==
    IF sent = <<>> THEN <<>>
    ELSE (IF Head(sent).to = a THEN <<Head(sent).pkt>> ELSE <<>>) \o PacketsTo(Tail(sent), a)

RECURSIVE Payloads(_)
Payloads(pkts) ==
    IF pkts = <<>> THEN <<>>
    ELSE (IF Head(pkts).op = "Data" THEN Head(pkts).data ELSE <<>>) \o Payloads(Tail(pkts))

\* The client after the packets pkts reached it: got is the payloads in the
\* order sent, blocks their count, inorder whether each Data carried the block
\* number after its predecessor's (from 1), pending the block to acknowledge
\* (-1: nothing).
Received(c, pkts) ==
    IF pkts = <<>> THEN [c EXCEPT !.pending = -1]
    ELSE IF pkts[Len(pkts)].op = "Oack" THEN [c EXCEPT !.pending = 0]
    ELSE IF pkts[Len(pkts)].op = "Data"
         THEN [c EXCEPT !.got = c.got \o Payloads(pkts),
                        !.blocks = c.blocks + Len(pkts),
                        !.inorder = c.inorder /\ \A i \in 1..Len(pkts) :
                            /\ pkts[i].op = "Data"
                            /\ pkts[i].block_num = wrapping_add(c.blocks, i),
                        !.pending = pkts[Len(pkts)].block_num]
         ELSE [c EXCEPT !.pending = -1]

\* A read request is valid: the file is under the root and exists, and the
\* options negotiate.
ValidRequest(f, o) ==
    /\ check_file_exists(join(directory, f), directory) = "FileExists"
    /\ parse_options(o, file_len(join(directory, f))).ok

GoodRrq(a) ==
    \E f \in Filenames, o \in OptionLists :
        /\ ValidRequest(f, o)
        /\ client[a].pending = -1
        /\ Listen(a, Rrq(f, o))
        /\ client' = [client EXCEPT ![a] =
               Received([Idle EXCEPT !.requested = TRUE, !.filename = f], PacketsTo(out', a))]

GoodAck(a) ==
    /\ client[a].pending # -1
    /\ Listen(a, Ack(client[a].pending))
    /\ client' = [client EXCEPT ![a] = Received(client[a], PacketsTo(out', a))]

NextGood == \E a \in Addrs : GoodRrq(a) \/ GoodAck(a)

SpecGood == Init /\ [][NextGood]_vars

(***************************************************************************)
(* The claims.                                                             *)
(***************************************************************************)
RequestedBytes(a) == file_bytes(join(directory, client[a].filename))

\* C1: for a client that acknowledges the highest block of each batch, the Data
\* payloads the server has sent it, in block order, are at every moment a
\* prefix of the file's bytes, and are the file's exact bytes once the server
\* gives the client nothing more to acknowledge.
C1_ServedEqualsFile ==
    \A a \in Addrs :
        client[a].requested =>
            /\ client[a].inorder
            /\ IsPrefix(client[a].got, RequestedBytes(a))
            /\ (client[a].pending = -1 => client[a].got = RequestedBytes(a))

\* A client has received a whole file of several blocks, and its transfer is closed.
C1_Witness ==
    \E a \in Addrs :
        /\ client[a].requested
        /\ client[a].pending = -1
        /\ client[a].blocks >= 3
        /\ client[a].got = RequestedBytes(a)
        /\ Len(client[a].got) = MaxFileLen
        /\ a \notin DOMAIN connmap

\* The datagram handled last was an Ack from an address that had an entry.
AckStep == inp'.pkt.op = "Ack" /\ inp'.from \in DOMAIN connmap

\* C2: an Ack removes the sender's entry only when, after the drain done for
\* that Ack, the completion flag is set and the window is empty.
C2_CloseOnlyWhenDrained ==
    [][(AckStep /\ inp'.from \notin DOMAIN connmap')
          => LET state == drain(connmap[inp'.from], inp'.pkt.block)
             IN  state.finished /\ state.window = <<>>]_vars

\* C3: an Ack(B) with (B - C) mod 65536 > windowSize changes nothing: the entry
\* stays, with its block number, window and completion flag as they were.
C3_StaleAckChangesNothing ==
    [][(/\ AckStep
        /\ wrapping_sub(inp'.pkt.block, connmap[inp'.from].block_number)
              > connmap[inp'.from].options.windowsize)
          => /\ inp'.from \in DOMAIN connmap'
             /\ connmap'[inp'.from] = connmap[inp'.from]]_vars

\* The entry's State after handle_ack's drain as the window design has it:
\* min(diff + 1, length) chunks leave the front of the window.
drain_front(state, ack_block_number) ==
    LET diff == wrapping_sub(ack_block_number, state.block_number)
        n == Min(diff + 1, Len(state.window))
    IN  [state EXCEPT !.block_number = wrapping_add(ack_block_number, 1),
                      !.window = SubSeq(state.window, n + 1, Len(state.window))]

\* C4: an Ack(B) with diff = (B - C) mod 65536 <= windowSize sets the block
\* number to (B + 1) mod 65536 and removes min(diff + 1, length) chunks from the
\* front of the window, the rest keeping their order (stated of an entry that
\* the Ack leaves in the table, where the refill follows the drain).
C4_DrainFromFront ==
    [][(/\ AckStep
        /\ ~panicked'
        /\ inp'.from \in DOMAIN connmap'
        /\ wrapping_sub(inp'.pkt.block, connmap[inp'.from].block_number)
              <= connmap[inp'.from].options.windowsize)
          => connmap'[inp'.from]
                = process_send(inp'.from, drain_front(connmap[inp'.from], inp'.pkt.block)).state]_vars

\* The path the last request named, and the request's answer being one Error
\* with the table as it was.
RrqStep == inp'.pkt.op = "Rrq"
RrqPath == join(directory, inp'.pkt.filename)
Rejected(code) == out' = <<To(inp'.from, Error(code))>> /\ connmap' = connmap

\* A path has a parent-directory segment; a path resolves outside the root.
ParentSegment(path) ==
    \E i \in 1..Len(components(path)) : components(path)[i] = <<".", ".">>
ResolvesOutside(path) == ~IsPrefix(components(directory), Resolved(path))

\* C5 as claimed: a request whose path has a parent-directory segment or resolves
\* outside the root gets one AccessViolation; any other request for a file that
\* does not exist gets one FileNotFound; neither creates an entry nor sends
\* Data or an OptionAck.
C5_TraversalRejected ==
    [][RrqStep
          => IF ParentSegment(RrqPath) \/ ResolvesOutside(RrqPath)
             THEN Rejected("AccessViolation")
             ELSE ~exists(RrqPath) => Rejected("FileNotFound")]_vars

\* C5 amended: a request whose path text contains ".." anywhere (a parent
\* segment, or two dots inside a name) or does not lie under the root gets one
\* AccessViolation, whether or not the file exists; any other request for a
\* file that does not exist gets one FileNotFound; neither changes the table nor
\* sends Data or an OptionAck.
C5_DotDotRejected ==
    [][RrqStep
          => IF contains_dotdot(RrqPath) \/ ~has_ancestor(RrqPath, directory)
             THEN Rejected("AccessViolation")
             ELSE ~exists(RrqPath) => Rejected("FileNotFound")]_vars

\* A request for a..b, which has no parent segment and stays under the root,
\* was answered with AccessViolation, and the sender has no entry.
C5_Witness ==
    /\ inp.pkt.op = "Rrq"
    /\ inp.pkt.filename = Name_dots
    /\ out = <<To(inp.from, Error("AccessViolation"))>>
    /\ inp.from \notin DOMAIN connmap

ZeroOption(o) ==
    o.value = 0 /\ (o.option = "Timeout" \/ o.option = "Windowsize")

\* C6: a request for an existing file under the root whose options hold
\* Timeout=0 or WindowSize=0 gets exactly one Error NotDefined and no entry.
C6_ZeroOptionRejected ==
    [][(/\ RrqStep
        /\ check_file_exists(RrqPath, directory) = "FileExists"
        /\ \E i \in 1..Len(inp'.pkt.options) : ZeroOption(inp'.pkt.options[i]))
          => Rejected("NotDefined")]_vars

\* C7: a request with no options for an existing file resolves blockSize 512,
\* timeout 5, windowSize 1 and transferSize the file's size.
C7_DefaultOptions ==
    (/\ inp.pkt.op = "Rrq"
     /\ inp.pkt.options = <<>>
     /\ check_file_exists(join(directory, inp.pkt.filename), directory) = "FileExists")
        => /\ inp.from \in DOMAIN connmap
           /\ connmap[inp.from].options
                 = [blk_size |-> 512, t_size |-> file_len(join(directory, inp.pkt.filename)),
                    timeout |-> 5, windowsize |-> 1]

\* The value of the last option of a kind, or a default.
RECURSIVE LastValue(_, _, _)
LastValue(options, kind, default) ==
    IF options = <<>> THEN default
    ELSE IF options[Len(options)].option = kind THEN options[Len(options)].value
    ELSE LastValue(SubSeq(options, 1, Len(options) - 1), kind, default)

\* The options of a request negotiate: no zero Timeout, a Windowsize in 1..65535.
Negotiable(options) ==
    \A i \in 1..Len(options) :
        /\ ~ZeroOption(options[i])
        /\ options[i].option = "Windowsize" => options[i].value <= 65535

\* C8: after a request with options for an existing file negotiates, the one
\* packet sent is an OptionAck carrying the client's list with every
\* TransferSize value replaced by the file's length and every other option as
\* sent; transferSize resolves to the file's length when the list has a
\* TransferSize, blockSize and timeout to the client's values.
C8_OackEchoesRewritten ==
    (/\ inp.pkt.op = "Rrq"
     /\ inp.pkt.options # <<>>
     /\ Negotiable(inp.pkt.options)
     /\ check_file_exists(join(directory, inp.pkt.filename), directory) = "FileExists")
        => LET asked == inp.pkt.options
               size == file_len(join(directory, inp.pkt.filename))
           IN  /\ Len(out) = 1
               /\ out[1].to = inp.from
               /\ out[1].pkt.op = "Oack"
               /\ Len(out[1].pkt.options) = Len(asked)
               /\ \A i \in 1..Len(asked) :
                     /\ out[1].pkt.options[i].option = asked[i].option
                     /\ out[1].pkt.options[i].value
                           = IF asked[i].option = "TransferSize" THEN size ELSE asked[i].value
               /\ inp.from \in DOMAIN connmap
               /\ (\E i \in 1..Len(asked) : asked[i].option = "TransferSize")
                     => connmap[inp.from].options.t_size = size
               /\ connmap[inp.from].options.blk_size = LastValue(asked, "BlockSize", 512)
               /\ connmap[inp.from].options.timeout = LastValue(asked, "Timeout", 5)

\* A request with TransferSize=0, BlockSize=2, Timeout=3 for the longest file was
\* answered by an OptionAck whose TransferSize is the file's length.
C8_Witness ==
    /\ inp.pkt.op = "Rrq"
    /\ inp.pkt.filename = Name_r
    /\ inp.pkt.options = <<Opt("TransferSize", 0), Opt("BlockSize", 2), Opt("Timeout", 3)>>
    /\ out = <<To(inp.from, Oack(<<Opt("TransferSize", MaxFileLen), Opt("BlockSize", 2),
                                   Opt("Timeout", 3)>>))>>
    /\ connmap[inp.from].options.t_size = MaxFileLen

\* An entry made by a request with options, its OptionAck still unanswered.
Awaiting(a) ==
    /\ a \in DOMAIN connmap
    /\ connmap[a].block_number = 0
    /\ connmap[a].window = <<>>
    /\ connmap[a].pos = 0
    /\ ~connmap[a].finished

\* The packets sent are Data packets numbered from `first`, one after the other.
DataFrom(sent, first) ==
    \A i \in 1..Len(sent) :
        sent[i].pkt.op = "Data" /\ sent[i].pkt.block_num = wrapping_add(first, i - 1)

NoData(sent) == \A i \in 1..Len(sent) : sent[i].pkt.op # "Data"

ValidRrqStep ==
    /\ RrqStep
    /\ check_file_exists(RrqPath, directory) = "FileExists"
    /\ Negotiable(inp'.pkt.options)

\* C9: a valid request with options creates the transfer at block number 0 and
\* is answered by one OptionAck only; until the client sends Ack(0) no Data is
\* sent to it, and the Data after Ack(0) starts at block 1.  A valid request
\* without options creates the transfer at block number 1 and is answered at
\* once by the first window, from block 1.
C9_DataAfterAckZero ==
    [][/\ (ValidRrqStep /\ inp'.pkt.options # <<>>)
            => /\ connmap'[inp'.from].block_number = 0
               /\ Len(out') = 1 /\ out'[1].pkt.op = "Oack"
       /\ (ValidRrqStep /\ inp'.pkt.options = <<>>)
            => /\ connmap'[inp'.from].block_number = 1
               /\ DataFrom(out', 1)
               /\ Payloads(PacketsTo(out', inp'.from))
                     = SubSeq(file_bytes(RrqPath), 1, Min(file_len(RrqPath), 512))
       /\ (inp'.pkt.op = "Ack" /\ Awaiting(inp'.from))
            => IF inp'.pkt.block = 0 THEN DataFrom(out', 1) ELSE NoData(out')]_vars

\* C10: a transfer with an acknowledging client ends: once the server gives the
\* client nothing more to acknowledge, the file's last chunk has been sent and
\* acknowledged and the entry is gone.
C10_TransferEnds ==
    \A a \in Addrs :
        (client[a].requested /\ client[a].pending = -1) => a \notin DOMAIN connmap

\* C11: no sequence of datagrams ends the server: no handler panics (the drain
\* count diff + 1 does not overflow its 16 bits).
C11_NeverPanics == ~panicked

\* C12: a packet that is no ReadRequest, Ack or Error is answered with exactly
\* one Error IllegalOperation to its sender, and the table is left as it was.
C12_OtherPacketRejected ==
    [][(inp'.pkt.op \in {"Wrq", "Data", "Oack"})
          => /\ out' = <<To(inp'.from, Error("IllegalOperation"))>>
             /\ connmap' = connmap
             /\ ~panicked']_vars

\* A WriteRequest reached the server while its sender had a transfer with
\* unacknowledged chunks, and was answered with IllegalOperation.
C12_Witness ==
    /\ inp.pkt.op = "Wrq"
    /\ out = <<To(inp.from, Error("IllegalOperation"))>>
    /\ inp.from \in DOMAIN connmap
    /\ connmap[inp.from].window # <<>>

\* C13: an Ack from an address without an entry is answered with no packet and
\* leaves the table as it was.
C13_UnknownAckIgnored ==
    [][(inp'.pkt.op = "Ack" /\ inp'.from \notin DOMAIN connmap)
          => /\ out' = <<>>
             /\ connmap' = connmap]_vars

\* An Ack(2) was handled (as the first datagram of all, say), nothing was sent
\* and its sender has no entry.
C13_Witness ==
    /\ inp.pkt.op = "Ack"
    /\ inp.pkt.block = 2
    /\ inp.from \notin DOMAIN connmap
    /\ out = <<>>

\* C14: an Error from a client is answered with nothing and changes nothing:
\* the table, and with it the sender's block number, window and completion
\* flag, stay as they were, so that a later Ack is handled as it would have
\* been without the Error.
C14_ClientErrorIgnored ==
    [][(inp'.pkt.op = "Error")
          => /\ out' = <<>>
             /\ connmap' = connmap
             /\ ~panicked'
             /\ \A b \in AckBlocks :
                    dispatch(connmap', Ack(b), inp'.from) = dispatch(connmap, Ack(b), inp'.from)]_vars

\* An Error reached the server while its sender had a transfer with
\* unacknowledged chunks, and the entry is still there.
C14_Witness ==
    /\ inp.pkt.op = "Error"
    /\ out = <<>>
    /\ inp.from \in DOMAIN connmap
    /\ connmap[inp.from].window # <<>>
    /\ ~connmap[inp.from].finished

\* Chunk c is the file bytes of block k (blocks are numbered from 1, block k
\* starting at offset (k - 1) * blk_size; the block after a file that ends on a
\* block boundary is empty).
IsBlock(c, bytes, k, blk_size) ==
    /\ k >= 1
    /\ (k - 1) * blk_size <= Len(bytes)
    /\ c = SubSeq(bytes, (k - 1) * blk_size + 1, Min(Len(bytes), k * blk_size))

\* C15: in every entry the window's chunks are contiguous and in file order from
\* the current block number: its i-th chunk (from 0) is the file bytes of block
\* (block number + i) mod 65536; and a batch of Data is sent with those block
\* numbers, increasing, and those chunks.
C15_WindowContiguous ==
    /\ \A a \in DOMAIN connmap :
          \A i \in 1..Len(connmap[a].window) :
              IsBlock(connmap[a].window[i], file_bytes(connmap[a].filepath),
                      wrapping_add(connmap[a].block_number, i - 1),
                      connmap[a].options.blk_size)
    /\ (out # <<>> /\ out[1].pkt.op = "Data" /\ inp.from \in DOMAIN connmap)
          => out = send_window(inp.from, connmap[inp.from].window,
                               connmap[inp.from].block_number)

\* C16: in every entry the window holds at most windowSize chunks.
C16_WindowBounded ==
    \A a \in DOMAIN connmap : Len(connmap[a].window) <= connmap[a].options.windowsize

\* An unfinished transfer negotiated with windowSize 2 holds a full window of two
\* chunks after an Ack.
C16_Witness ==
    \E a \in DOMAIN connmap :
        /\ connmap[a].options.windowsize = 2
        /\ Len(connmap[a].window) = 2
        /\ ~connmap[a].finished
        /\ inp.pkt.op = "Ack"

\* C17: when a fill sets the completion flag, the terminating chunk, shorter
\* than blockSize or empty, is the last chunk of the window, ends the file, and
\* is the last Data of the batch sent by that step.
C17_TerminatorQueued ==
    [][(/\ inp'.pkt.op \in {"Rrq", "Ack"}
        /\ ~panicked'
        /\ inp'.from \in DOMAIN connmap'
        /\ connmap'[inp'.from].finished
        /\ connmap' # connmap)
          => LET state == connmap'[inp'.from]
                 last == state.window[Len(state.window)]
             IN  /\ state.window # <<>>
                 /\ Len(last) < state.options.blk_size
                 /\ state.pos = Len(file_bytes(state.filepath))
                 /\ out' # <<>>
                 /\ out'[Len(out')].pkt.op = "Data"
                 /\ out'[Len(out')].pkt.data = last]_vars

\* Block B is one of the blocks of the entry's window: sent and unacknowledged.
InWindow(state, b) ==
    \E i \in 1..Len(state.window) : b = wrapping_add(state.block_number, i - 1)

\* C18: an Ack(B) changes the entry's block number or window only if block B is
\* one of the blocks of the window as last sent, or B = 0 answers the OptionAck
\* of a negotiated transfer.
C18_OnlySentBlocksAdvance ==
    [][(/\ AckStep
        /\ ~panicked'
        /\ \/ drain(connmap[inp'.from], inp'.pkt.block).block_number
                 # connmap[inp'.from].block_number
           \/ drain(connmap[inp'.from], inp'.pkt.block).window
                 # connmap[inp'.from].window
           \/ /\ inp'.from \in DOMAIN connmap'
              /\ \/ connmap'[inp'.from].block_number # connmap[inp'.from].block_number
                 \/ connmap'[inp'.from].window # connmap[inp'.from].window)
          => \/ InWindow(connmap[inp'.from], inp'.pkt.block)
             \/ Awaiting(inp'.from) /\ inp'.pkt.block = 0]_vars

\* C19: a stale Ack (diff > windowSize) to a transfer whose completion flag is
\* unset and whose window has been sent makes the server send the current
\* window again, the block numbers and payloads of the batch before, and leaves
\* the entry (file offset, block number, window, flag) as it was.
C19_StaleAckResends ==
    [][(/\ AckStep
        /\ ~connmap[inp'.from].finished
        /\ connmap[inp'.from].window # <<>>
        /\ wrapping_sub(inp'.pkt.block, connmap[inp'.from].block_number)
              > connmap[inp'.from].options.windowsize)
          => /\ connmap' = connmap
             /\ out' # <<>>
             /\ out' = send_window(inp'.from, connmap[inp'.from].window,
                                   connmap[inp'.from].block_number)
             /\ (out # <<>> /\ out[1].pkt.op = "Data") => out' = out]_vars

\* A stale Ack(4) (the block number being 1 and windowSize 2, diff = 3) was
\* answered with the window again, blocks 1 and 2 of the file, and the transfer
\* is unfinished at block number 1.
C19_Witness ==
    /\ inp.pkt.op = "Ack"
    /\ inp.pkt.block = 4
    /\ inp.from \in DOMAIN connmap
    /\ ~connmap[inp.from].finished
    /\ connmap[inp.from].block_number = 1
    /\ connmap[inp.from].options.windowsize = 2
    /\ out = <<To(inp.from, Data(1, <<11, 12>>)), To(inp.from, Data(2, <<13, 14>>))>>

(***************************************************************************)
(* SpecPeers: two senders, each of which may send at any time any of a     *)
(* few datagrams: requests for three files and a missing one, without      *)
(* options or with block size 2 and window size 2, Acks of the blocks      *)
(* 0..MaxAck, an Error and a WriteRequest.                                 *)
(***************************************************************************)
PeerFilenames == {Name_r, Name_q, Name_e, Name_m}
PeerOptionLists == {<<>>, <<Opt("BlockSize", 2), Opt("Windowsize", 2)>>}

PeerRrq(a) ==
    \E f \in PeerFilenames, o \in PeerOptionLists :
        Listen(a, Rrq(f, o)) /\ UNCHANGED client

PeerAck(a) ==
    \E b \in 0..MaxAck : Listen(a, Ack(b)) /\ UNCHANGED client

PeerError(a) == Listen(a, Error("NotDefined")) /\ UNCHANGED client

PeerOther(a) == Listen(a, Wrq(Name_r)) /\ UNCHANGED client

NextPeers ==
    \E a \in Addrs : PeerRrq(a) \/ PeerAck(a) \/ PeerError(a) \/ PeerOther(a)

SpecPeers == Init /\ [][NextPeers]_vars

\* C20: handling a datagram from one address neither creates, removes nor
\* changes the entry of any other address, and sends packets to the sender
\* only.
C20_OtherEntriesUntouched ==
    [][/\ \A b \in Addrs \ {inp'.from} :
              /\ (b \in DOMAIN connmap') <=> (b \in DOMAIN connmap)
              /\ b \in DOMAIN connmap => connmap'[b] = connmap[b]
       /\ \A i \in 1..Len(out') : out'[i].to = inp'.from]_vars

\* Both addresses have transfers in progress on different files, at different
\* block numbers, and the datagram handled last was an Ack that sent Data.
C20_Witness ==
    /\ DOMAIN connmap = Addrs
    /\ inp.pkt.op = "Ack"
    /\ out # <<>>
    /\ \E b \in Addrs \ {inp.from} :
          /\ connmap[b].window # <<>>
          /\ connmap[b].filepath # connmap[inp.from].filepath
          /\ connmap[b].block_number # connmap[inp.from].block_number

(***************************************************************************)
(* SpecRestart: one sender, which may at any time send a read request,     *)
(* whether or not it has a transfer in progress, or an Ack of a block      *)
(* 0..MaxAck.  The requests are for two files, a missing one and one       *)
(* outside the root, without options, with block size 2 and window size 2, *)
(* or with a timeout the negotiation refuses.  The client remembers the    *)
(* transfer its latest request found in the table.                         *)
(***************************************************************************)
RestartFilenames == {Name_r, Name_q, Name_m, Name_up_s}
RestartOptionLists ==
    { <<>>,
      <<Opt("BlockSize", 2), Opt("Windowsize", 2)>>,
      <<Opt("BlockSize", 2), Opt("Timeout", 0)>> }

Found(a) ==
    IF a \in DOMAIN connmap THEN [live |-> TRUE, state |-> connmap[a]]
    ELSE [live |-> FALSE]

RestartRrq(a) ==
    \E f \in RestartFilenames, o \in RestartOptionLists :
        /\ Listen(a, Rrq(f, o))
        /\ client' = [client EXCEPT ![a] =
               [Idle EXCEPT !.requested = TRUE, !.filename = f, !.interrupted = Found(a)]]

RestartAck(a) ==
    \E b \in 0..MaxAck : Listen(a, Ack(b)) /\ UNCHANGED client

NextRestart == \E a \in Senders : RestartRrq(a) \/ RestartAck(a)

SpecRestart == Init /\ [][NextRestart]_vars

\* The State handle_rrq builds for a request of file_path whose options
\* negotiated to parsed.
Fresh(file_path, parsed) ==
    [filepath |-> file_path,
     pos |-> 0,
     options |-> parsed.state,
     block_number |-> IF Len(parsed.options) > 0 THEN 0 ELSE 1,
     window |-> <<>>,
     finished |-> FALSE]

\* C21: the table holds at most one entry per address.  A valid read request
\* from an address that has a transfer in progress puts a fresh transfer in
\* that transfer's place: the entry is afterwards the fresh State (block number
\* 0, empty window, not finished, file at offset 0) when the request carries
\* options, and the fresh State (block number 1) after its first send when it
\* carries none, the Data sent being the file's bytes from offset 0.  A read
\* request from that address that fails validation or negotiation leaves the
\* table as it was.
C21_RestartReplacesEntry ==
    [][/\ DOMAIN connmap' \subseteq Addrs
       /\ (inp'.pkt.op = "Rrq" /\ inp'.from \in DOMAIN connmap) =>
            LET a == inp'.from
                file_path == join(directory, inp'.pkt.filename)
                parsed == parse_options(inp'.pkt.options, file_len(file_path))
                fresh == Fresh(file_path, parsed)
            IN  IF ValidRequest(inp'.pkt.filename, inp'.pkt.options)
                THEN /\ DOMAIN connmap' = DOMAIN connmap
                     /\ connmap'[a] = IF Len(inp'.pkt.options) > 0 THEN fresh
                                      ELSE process_send(a, fresh).state
                     /\ connmap'[a].block_number \in {0, 1}
                     /\ IsPrefix(Payloads(PacketsTo(out', a)), file_bytes(file_path))
                     /\ Len(inp'.pkt.options) > 0 =>
                            /\ connmap'[a].window = <<>>
                            /\ ~connmap'[a].finished
                            /\ connmap'[a].pos = 0
                ELSE connmap' = connmap]_vars

\* A sender whose transfer of one file had moved past its first window has
\* sent a valid request with options for another file, and its entry is now a
\* fresh transfer of that file.
C21_Witness ==
    /\ inp.pkt.op = "Rrq"
    /\ inp.pkt.options # <<>>
    /\ ValidRequest(inp.pkt.filename, inp.pkt.options)
    /\ client[inp.from].interrupted.live
    /\ client[inp.from].interrupted.state.filepath # join(directory, inp.pkt.filename)
    /\ client[inp.from].interrupted.state.block_number > 1
    /\ client[inp.from].interrupted.state.window # <<>>
    /\ inp.from \in DOMAIN connmap
    /\ connmap[inp.from].filepath = join(directory, inp.pkt.filename)
    /\ connmap[inp.from].block_number = 0
    /\ connmap[inp.from].window = <<>>
    /\ connmap[inp.from].pos = 0
    /\ ~connmap[inp.from].finished

====
